---------------------------- MODULE Spec2Model ----------------------------
(***************************************************************************)
(* A model of the hitBar class of src/hitBar.py (the second, complete      *)
(* definition of the class, lines 201-452, which is the one Python keeps). *)
(*                                                                         *)
(* Numbers.  direction, realmIn and realmOut are float32 arrays.  The bars *)
(* of the model are axis-aligned (or degenerate), so the unit normal has   *)
(* components in {-1, 0, 1}, and every later value of direction is         *)
(* 0.5 * (direction + integer displacement): a dyadic rational.  A dyadic  *)
(* pair is kept as integer numerators x, y and an exponent e, the value    *)
(* being (x / 2^e, y / 2^e), in lowest terms, so that equal floats are     *)
(* equal values of the model.  Within the bounds below every such value    *)
(* has far fewer than 24 significant bits, so the float32 arithmetic of    *)
(* the code is exact and the model computes what the code computes.        *)
(***************************************************************************)
EXTENDS Integers, Sequences, FiniteSets, TLC

VARIABLES
    startPoint,           \* self.startPoint : <<x, y>>
    endPoint,             \* self.endPoint   : <<x, y>>
    width,                \* self.width
    maxLength,            \* self.maxLength
    direction,            \* self.direction  : [x, y, e], the pair (x/2^e, y/2^e)
    realmIn,              \* self.realmIn    : [pts, e], four points, each (x/2^e, y/2^e)
    realmOut,             \* self.realmOut   : [pts, e]
    history,              \* self.history    : sequence of detection frames
    Accumulator,          \* self.Accumulator: function category -> count
    monitoredCatagories,  \* self.monitoredCatagories (a list built from a set)
    printed,              \* the lines printed by the most recent update (line 396)
    imgSize,              \* self.imgSize   : <<height, width>> or None
    visualize,            \* self.visualize
    imgOut,               \* self.imgOut    : the image of the most recent update
    raised                \* the exception the most recent call ended with, or "none"

vars == <<startPoint, endPoint, width, maxLength, direction, realmIn, realmOut,
          history, Accumulator, monitoredCatagories, printed,
          imgSize, visualize, imgOut, raised>>

---------------------------------------------------------------------------
(* Bounds of the model *)

\* Update is not taken once the counters sum to more than this.
MaxCount == 2

\* The disambiguator tags of the side mapping range over 0..MaxTag.
MaxTag == 1

---------------------------------------------------------------------------
(* Values *)

\* Python's None for an absent point or size: the empty tuple, which is
\* falsy like None in "not startPoint".
None == <<>>

\* numInCat = None
NoTag == -1

RECURSIVE Pow2(_)
Pow2(e) == IF e = 0 THEN 1 ELSE 2 * Pow2(e - 1)

\* A dyadic pair in lowest terms.
RECURSIVE Reduce(_, _, _)
Reduce(x, y, e) ==
    IF e > 0 /\ x % 2 = 0 /\ y % 2 = 0
    THEN Reduce(x \div 2, y \div 2, e - 1)
    ELSE [x |-> x, y |-> y, e |-> e]

---------------------------------------------------------------------------
(* Geometry *)

\* The four corners [AIn, BIn, B, A] (or Out) that update recomputes from
\* startPoint, endPoint, width and direction; sign is -1 for realmIn and
\* +1 for realmOut.  Coordinates are scaled by 2^dir.e.
RealmOf(A, B, w, dir, sign) ==
    LET s  == Pow2(dir.e)
        ox == sign * w * dir.x
        oy == sign * w * dir.y
    IN  [e   |-> dir.e,
         pts |-> << <<A[1] * s + ox, A[2] * s + oy>>,
                    <<B[1] * s + ox, B[2] * s + oy>>,
                    <<B[1] * s, B[2] * s>>,
                    <<A[1] * s, A[2] * s>> >>]

\* The corners as __init__ orders them: [A, B, BIn, AIn].
InitRealmOf(A, B, w, dir, sign) ==
    LET r == RealmOf(A, B, w, dir, sign).pts
    IN  [e |-> dir.e, pts |-> <<r[4], r[3], r[2], r[1]>>]

\* cv2.pointPolygonTest(contour, pt, False) on a float contour: the edge
\* loop of the library, with its early "on the edge" returns.  pt and the
\* contour are in the same scale.
EdgeAside(v0, v, pt) ==
    \/ (v0[2] <= pt[2] /\ v[2] <= pt[2])
    \/ (v0[2] > pt[2] /\ v[2] > pt[2])
    \/ (v0[1] < pt[1] /\ v[1] < pt[1])

EdgeTouch(v0, v, pt) ==
    /\ pt[2] = v[2]
    /\ \/ pt[1] = v[1]
       \/ /\ pt[2] = v0[2]
          /\ \/ (v0[1] <= pt[1] /\ pt[1] <= v[1])
             \/ (v[1] <= pt[1] /\ pt[1] <= v0[1])

RECURSIVE PolygonLoop(_, _, _, _)
PolygonLoop(contour, pt, i, counter) ==
    IF i > Len(contour)
    THEN (IF counter % 2 = 0 THEN -1 ELSE 1)
    ELSE LET v0 == contour[IF i = 1 THEN Len(contour) ELSE i - 1]
             v  == contour[i]
             d  == (pt[2] - v0[2]) * (v[1] - v0[1]) - (pt[1] - v0[1]) * (v[2] - v0[2])
             dist == IF v[2] < v0[2] THEN -d ELSE d
         IN  IF EdgeAside(v0, v, pt)
             THEN (IF EdgeTouch(v0, v, pt) THEN 0
                   ELSE PolygonLoop(contour, pt, i + 1, counter))
             ELSE IF d = 0 THEN 0
             ELSE PolygonLoop(contour, pt, i + 1,
                              counter + (IF dist > 0 THEN 1 ELSE 0))

pointPolygonTest(contour, pt) == PolygonLoop(contour, pt, 1, 0)

\* A slip: the boundary is left out (inside > 0).
inRealm_Open(point, realm) ==
    LET s == Pow2(realm.e)
    IN  pointPolygonTest(realm.pts, <<point[1] * s, point[2] * s>>) > 0

\* hitBar._inRealm: inside or on the boundary.
inRealm(point, realm) ==
    LET s == Pow2(realm.e)
    IN  pointPolygonTest(realm.pts, <<point[1] * s, point[2] * s>>) >= 0

---------------------------------------------------------------------------
(* Images *)

\* An image: its size <<height, width>>, the colour of the plain picture it
\* was copied from (the bg of the demo is one colour throughout), and what
\* update drew on the copy.  fills is <<>> or <<ptsIn, ptsOut>>, the two
\* polygons filled on the overlay that was blended in; line is <<>> or
\* <<A, B>>, the centerline.  Colours are <<blue, green, red>>.
Image(size, base) == [size |-> size, base |-> base, fills |-> <<>>, line |-> <<>>]

Grey == <<200, 200, 200>>
Red  == <<0, 0, 255>>
Blue == <<255, 0, 0>>

\* np.int32 of a float x / s: truncation toward zero.
Trunc(x, s) == IF x >= 0 THEN x \div s ELSE -((-x) \div s)

\* ptsIn, ptsOut: np.int32(realm.reshape(-1,1,2))
IntPts(realm) ==
    [i \in 1..4 |-> <<Trunc(realm.pts[i][1], Pow2(realm.e)),
                      Trunc(realm.pts[i][2], Pow2(realm.e))>>]

\* cv2.fillPoly paints every pixel inside or on the polygon (for a polygon
\* with slanted edges it may paint more along them).
Filled(pts, p) == pointPolygonTest(pts, p) >= 0

\* One channel of cv2.addWeighted(overlay, 0.4, img, 0.6, 0), rounded to
\* the nearest integer (4 * o + 6 * i is even, so there are no ties).
Weighted(o, i) == (4 * o + 6 * i + 5) \div 10

\* p is a pixel of the segment from A to B, which cv2.line paints.
OnSegment(A, B, p) ==
    /\ (B[1] - A[1]) * (p[2] - A[2]) = (B[2] - A[2]) * (p[1] - A[1])
    /\ (p[1] - A[1]) * (p[1] - B[1]) <= 0
    /\ (p[2] - A[2]) * (p[2] - B[2]) <= 0

\* The colour of the overlay at pixel p: realmOut is filled after realmIn.
Overlay(image, p) ==
    IF image.fills = <<>> THEN image.base
    ELSE IF Filled(image.fills[2], p) THEN Blue
    ELSE IF Filled(image.fills[1], p) THEN Red
    ELSE image.base

\* The colour of pixel p of an image.
Pixel(image, p) ==
    IF image.line # <<>> /\ OnSegment(image.line[1], image.line[2], p) THEN Red
    ELSE [c \in 1..3 |-> Weighted(Overlay(image, p)[c], image.base[c])]

Pixels(size) == (0..(size[2] - 1)) \X (0..(size[1] - 1))

\* self.imgOut of update (lines 358-375): the realms filled on a copy and
\* blended into the picture, whatever visualize is; the centerline when
\* visualize is set.
Render(img, rIn, rOut, A, B, vis) ==
    [img EXCEPT !.fills = <<IntPts(rIn), IntPts(rOut)>>,
                !.line  = IF vis THEN <<A, B>> ELSE <<>>]

---------------------------------------------------------------------------
(* Construction *)

Sign(n) == IF n > 0 THEN 1 ELSE IF n < 0 THEN -1 ELSE 0

\* The constructor fails (TypeError on self.imgSize[0]) when an endpoint is
\* missing and no reference size is given.
InitRaises(size, sp, ep) == (sp = None \/ ep = None) /\ size = None

InitStart(size, sp, ep) ==
    IF sp = None \/ ep = None THEN <<0, size[1] \div 2>> ELSE sp

InitEnd(size, sp, ep) ==
    IF sp = None \/ ep = None THEN <<size[2], size[1] \div 2>> ELSE ep

\* n / norm_n for n = (-dy, dx), or the zero vector when norm_n < 1e-6.
\* The bars of the model have dx = 0 or dy = 0, where the quotient is the
\* sign of each component.
InitDirection(A, B) ==
    LET dx == B[1] - A[1]
        dy == B[2] - A[2]
    IN  [x |-> Sign(-dy), y |-> Sign(dx), e |-> 0]

Degenerate(A, B) == A = B

InitRealm(A, B, w, sign) ==
    IF Degenerate(A, B)
    THEN [e |-> 0, pts |-> IF sign < 0 THEN <<A, A, A, A>> ELSE <<B, B, B, B>>]
    ELSE InitRealmOf(A, B, w, InitDirection(A, B), sign)

\* A slip: the counter of every name given is set to 0.
MonitorAcc_Reset(acc, categories) ==
    LET new == {categories[i] : i \in DOMAIN categories}
    IN  [c \in (DOMAIN acc) \cup new |-> IF c \in new THEN 0 ELSE acc[c]]

\* hitBar._monitor: a zero counter for each name not yet counted.
MonitorAcc(acc, categories) ==
    LET new == {categories[i] : i \in DOMAIN categories}
    IN  [c \in (DOMAIN acc) \cup new |-> IF c \in DOMAIN acc THEN acc[c] ELSE 0]

\* A slip: the list given replaces the monitored categories.
MonitorCats_Replace(mon, categories) == {categories[i] : i \in DOMAIN categories}

\* hitBar._monitor: list(set(monitoredCatagories + categories)).
MonitorCats(mon, categories) ==
    mon \cup {categories[i] : i \in DOMAIN categories}

EmptyAcc == [c \in {} |-> 0]

---------------------------------------------------------------------------
(* Detection frames *)

\* A detection frame (the detailedResult dictionary): labels, IDs and
\* midPoints are its lists; hasProj says whether the key "numProjection" is
\* present, and numProjection maps each category to its list of
\* <<identity, tag>> pairs.  A category missing from the dictionary is the
\* empty list here: update (lines 388-391) and _hasIn (line 428) read a
\* missing category and an empty list alike.
Frame(labels, IDs, midPoints, hasProj, proj) ==
    [labels |-> labels, IDs |-> IDs, midPoints |-> midPoints,
     hasProj |-> hasProj, numProjection |-> proj]

\* A slip: the identity is always the positional index.
ResolveID_Index(labels, IDs, i) == i - 1

\* objID = IDs[idx] if len(IDs) == len(labels) else idx  (idx from 0)
ResolveID(labels, IDs, i) ==
    IF Len(IDs) = Len(labels) THEN IDs[i] ELSE i - 1

\* The tags of the pairs of a list whose identity is objID, in order.
TagsOf(pairs, objID) ==
    LET keep(x) == x[1] = objID
    IN  SelectSeq(pairs, keep)

\* numInCat: the first tag recorded for (cat, objID), or None.
ResolveTag(f, cat, objID) ==
    IF f.hasProj /\ TagsOf(f.numProjection[cat], objID) # <<>>
    THEN TagsOf(f.numProjection[cat], objID)[1][2]
    ELSE NoTag

---------------------------------------------------------------------------
(* update and _hasIn *)

\* A slip: nothing is evicted.
Retain_NoEvict(hist, f, maxLen) == Append(hist, f)

\* A slip: the frame just appended is the one evicted.
Retain_EvictNewest(hist, f, maxLen) ==
    IF Len(hist) + 1 > maxLen THEN hist ELSE Append(hist, f)

\* A slip: the eviction starts one frame late, so that a gate of maxLength
\* m retains m + 1 frames.
Retain_OneLate(hist, f, maxLen) ==
    LET h == Append(hist, f)
    IN  IF Len(h) > maxLen + 1 THEN Tail(h) ELSE h

\* history after the append and the eviction of lines 339-341.
Retain(hist, f, maxLen) ==
    LET h == Append(hist, f)
    IN  IF Len(h) > maxLen THEN Tail(h) ELSE h

\* A slip: the displacement is added to direction and the sum is not halved.
Blend_Sum(dir, pt, oldPt) ==
    LET s == Pow2(dir.e)
    IN  Reduce(dir.x + (pt[1] - oldPt[1]) * s, dir.y + (pt[2] - oldPt[2]) * s,
               dir.e)

\* 0.5 * (direction + (pt - oldPt))
Blend(dir, pt, oldPt) ==
    LET s == Pow2(dir.e)
    IN  Reduce(dir.x + (pt[1] - oldPt[1]) * s, dir.y + (pt[2] - oldPt[2]) * s,
               dir.e + 1)

\* A slip: the frame just appended is taken for the preceding one.
PastFrame_Last(hist) == IF Len(hist) >= 2 THEN <<hist[Len(hist)]>> ELSE <<>>

\* A slip: the oldest retained frame is taken for the preceding one.
PastFrame_Oldest(hist) == IF Len(hist) >= 2 THEN <<hist[1]>> ELSE <<>>

\* pastFrame of _hasIn: history[-2]; <<>> stands for the IndexError.
PastFrame(hist) == IF Len(hist) >= 2 THEN <<hist[Len(hist) - 1]>> ELSE <<>>

\* A slip: the identities of the two frames are not compared.
Matches_AnyID(past, rIn, cat, objID, numInCat) ==
    {i \in DOMAIN past.labels :
        /\ past.labels[i] = cat
        /\ ~ (/\ past.hasProj
              /\ numInCat # NoTag
              /\ LET arr == TagsOf(past.numProjection[cat], objID)
                 IN  arr = <<>> \/ arr[1][2] # numInCat)
        /\ inRealm(past.midPoints[i], rIn)}

\* A slip: the earlier position is not tested against realmIn.
Matches_NoRealm(past, rIn, cat, objID, numInCat) ==
    {i \in DOMAIN past.labels :
        /\ past.labels[i] = cat
        /\ ResolveID(past.labels, past.IDs, i) = objID
        /\ ~ (/\ past.hasProj
              /\ numInCat # NoTag
              /\ LET arr == TagsOf(past.numProjection[cat], objID)
                 IN  arr = <<>> \/ arr[1][2] # numInCat)}

\* The indices of pastFrame at which the loop of _hasIn reaches line 431.
Candidates(past, cat, objID, numInCat) ==
    {i \in DOMAIN past.labels :
        /\ past.labels[i] = cat
        /\ ResolveID(past.labels, past.IDs, i) = objID
        /\ ~ (/\ past.hasProj
              /\ numInCat # NoTag
              /\ LET arr == TagsOf(past.numProjection[cat], objID)
                 IN  arr = <<>> \/ arr[1][2] # numInCat)}

\* The candidates for which mids[i] raises IndexError.
Unplaced(past, cat, objID, numInCat) ==
    Candidates(past, cat, objID, numInCat) \ DOMAIN past.midPoints

\* The indices of pastFrame at which the loop of _hasIn would return True.
Matches(past, rIn, cat, objID, numInCat) ==
    {i \in DOMAIN past.labels :
        /\ past.labels[i] = cat
        /\ ResolveID(past.labels, past.IDs, i) = objID
        /\ ~ (/\ past.hasProj
              /\ numInCat # NoTag
              /\ LET arr == TagsOf(past.numProjection[cat], objID)
                 IN  arr = <<>> \/ arr[1][2] # numInCat)
        /\ i \in DOMAIN past.midPoints
        /\ inRealm(past.midPoints[i], rIn)}

Least(S) == CHOOSE i \in S : \A j \in S : i <= j

\* hitBar._hasIn: [found, dir, exc], the result, self.direction afterwards
\* and the exception it ends with, if any.  The IndexError of history[-2]
\* is caught (lines 416-417); the one of mids[i] is not.
hasIn(hist, rIn, dir, pt, cat, objID, numInCat) ==
    IF PastFrame(hist) = <<>> THEN [found |-> FALSE, dir |-> dir, exc |-> "none"]
    ELSE LET past == PastFrame(hist)[1]
             m    == Matches(past, rIn, cat, objID, numInCat)
             u    == Unplaced(past, cat, objID, numInCat)
         IN  IF u # {} /\ (m = {} \/ Least(u) < Least(m))
             THEN [found |-> FALSE, dir |-> dir, exc |-> "IndexError"]
             ELSE IF m = {} THEN [found |-> FALSE, dir |-> dir, exc |-> "none"]
             ELSE [found |-> TRUE,
                   dir   |-> Blend(dir, pt, past.midPoints[Least(m)]),
                   exc   |-> "none"]

\* A slip: a confirmed crossing is counted twice.
Entry_Twice(st, f, hist, rIn, rOut, mon, idx) ==
    LET cat      == f.labels[idx]
        pt       == f.midPoints[idx]
        objID    == ResolveID(f.labels, f.IDs, idx)
        numInCat == ResolveTag(f, cat, objID)
        h        == hasIn(hist, rIn, st.dir, pt, cat, objID, numInCat)
    IN  IF st.exc # "none" THEN st
        ELSE IF idx \notin DOMAIN f.labels THEN [st EXCEPT !.exc = "IndexError"]
        ELSE IF cat \notin mon THEN st
        ELSE IF ~ inRealm(pt, rOut) THEN st
        ELSE IF h.exc # "none" THEN [st EXCEPT !.exc = h.exc]
        ELSE IF ~ h.found THEN st
        ELSE [acc |-> [st.acc EXCEPT ![cat] = @ + 2],
              dir |-> h.dir,
              out |-> Append(st.out, [cat |-> cat, No |-> numInCat, ID |-> objID,
                                      count |-> st.acc[cat] + 2]),
              exc |-> "none"]

\* A slip: direction is averaged as soon as the preceding frame holds the
\* object, before its earlier position is tested against realmIn.
Entry_BlendUnconfirmed(st, f, hist, rIn, rOut, mon, idx) ==
    LET cat      == f.labels[idx]
        pt       == f.midPoints[idx]
        objID    == ResolveID(f.labels, f.IDs, idx)
        numInCat == ResolveTag(f, cat, objID)
        h        == hasIn(hist, rIn, st.dir, pt, cat, objID, numInCat)
        c        == IF PastFrame(hist) = <<>> THEN {}
                    ELSE Candidates(PastFrame(hist)[1], cat, objID, numInCat)
    IN  IF st.exc # "none" THEN st
        ELSE IF idx \notin DOMAIN f.labels THEN [st EXCEPT !.exc = "IndexError"]
        ELSE IF cat \notin mon THEN st
        ELSE IF ~ inRealm(pt, rOut) THEN st
        ELSE IF h.exc # "none" THEN [st EXCEPT !.exc = h.exc]
        ELSE IF ~ h.found
             THEN IF c = {} THEN st
                  ELSE [st EXCEPT !.dir =
                          Blend(st.dir, pt, PastFrame(hist)[1].midPoints[Least(c)])]
        ELSE [acc |-> [st.acc EXCEPT ![cat] = @ + 1],
              dir |-> h.dir,
              out |-> Append(st.out, [cat |-> cat, No |-> numInCat, ID |-> objID,
                                      count |-> st.acc[cat] + 1]),
              exc |-> "none"]

\* One iteration of the loop of update (lines 381-396) on entry idx.
\* st = [acc, dir, out, exc]: Accumulator, direction, the lines printed so
\* far, and the exception that ended the loop, if any: the IndexError of
\* labels[idx] (line 382) or the one of _hasIn.
Entry(st, f, hist, rIn, rOut, mon, idx) ==
    LET cat      == f.labels[idx]
        pt       == f.midPoints[idx]
        objID    == ResolveID(f.labels, f.IDs, idx)
        numInCat == ResolveTag(f, cat, objID)
        h        == hasIn(hist, rIn, st.dir, pt, cat, objID, numInCat)
    IN  IF st.exc # "none" THEN st
        ELSE IF idx \notin DOMAIN f.labels THEN [st EXCEPT !.exc = "IndexError"]
        ELSE IF cat \notin mon THEN st
        ELSE IF ~ inRealm(pt, rOut) THEN st
        ELSE IF h.exc # "none" THEN [st EXCEPT !.exc = h.exc]
        ELSE IF ~ h.found THEN st
        ELSE [acc |-> [st.acc EXCEPT ![cat] = @ + 1],
              dir |-> h.dir,
              out |-> Append(st.out, [cat |-> cat, No |-> numInCat, ID |-> objID,
                                      count |-> st.acc[cat] + 1]),
              exc |-> "none"]

\* A slip: an entry whose category and identity an earlier entry of the
\* frame has is skipped.
RECURSIVE Entries_Dedup(_, _, _, _, _, _, _)
Entries_Dedup(st, f, hist, rIn, rOut, mon, n) ==
    IF n = 0 THEN st
    ELSE LET before == Entries_Dedup(st, f, hist, rIn, rOut, mon, n - 1)
         IN  IF \E m \in 1..(n - 1) :
                    /\ f.labels[m] = f.labels[n]
                    /\ ResolveID(f.labels, f.IDs, m) = ResolveID(f.labels, f.IDs, n)
             THEN before
             ELSE Entry(before, f, hist, rIn, rOut, mon, n)

\* The loop of update (lines 381-396) over the first n entries, in order.
RECURSIVE Entries(_, _, _, _, _, _, _)
Entries(st, f, hist, rIn, rOut, mon, n) ==
    IF n = 0 THEN st
    ELSE Entry(Entries(st, f, hist, rIn, rOut, mon, n - 1),
               f, hist, rIn, rOut, mon, n)

Total(acc) ==
    LET RECURSIVE Sum(_)
        Sum(S) == IF S = {} THEN 0
                  ELSE LET c == CHOOSE c \in S : TRUE IN acc[c] + Sum(S \ {c})
    IN  Sum(DOMAIN acc)

\* A gate was built: the constructor did not raise.
Built == raised # "TypeError"

\* hitBar.update(img, f) on a gate that was built.
update(img, f) ==
    LET hist == Retain(history, f, maxLength)
        rIn  == RealmOf(startPoint, endPoint, width, direction, -1)
        rOut == RealmOf(startPoint, endPoint, width, direction, 1)
        st   == Entries([acc |-> Accumulator, dir |-> direction, out |-> <<>>,
                         exc |-> "none"],
                        f, hist, rIn, rOut, monitoredCatagories, Len(f.midPoints))
    IN  /\ Built
        /\ Total(st.acc) <= MaxCount      \* the bound of the model
        /\ history' = hist
        /\ realmIn' = rIn
        /\ realmOut' = rOut
        /\ imgOut' = Render(img, rIn, rOut, startPoint, endPoint, visualize)
        /\ Accumulator' = st.acc
        /\ direction' = st.dir
        /\ printed' = st.out
        /\ raised' = st.exc
        /\ UNCHANGED <<startPoint, endPoint, width, maxLength, monitoredCatagories,
                       imgSize, visualize>>

\* The picture update is called with: grey throughout, as the bg of the
\* demo, 8 pixels high and 4 wide.
Background == Image(<<8, 4>>, Grey)

\* hitBar.update(Background, f)
Update(f) == update(Background, f)

\* hitBar._monitor(categories)
Monitor(categories) ==
    /\ Built
    /\ raised' = "none"
    /\ Accumulator' = MonitorAcc(Accumulator, categories)
    /\ monitoredCatagories' = MonitorCats(monitoredCatagories, categories)
    /\ UNCHANGED <<startPoint, endPoint, width, maxLength, direction, realmIn,
                   realmOut, history, printed, imgSize, visualize, imgOut>>

\* The attributes the constructor has not assigned when it raises at line
\* 262: no gate exists, and the variables hold empty values.
Unbuilt ==
    /\ startPoint = None
    /\ endPoint = None
    /\ maxLength = 0
    /\ width = 0
    /\ direction = [x |-> 0, y |-> 0, e |-> 0]
    /\ realmIn = [e |-> 0, pts |-> <<>>]
    /\ realmOut = [e |-> 0, pts |-> <<>>]
    /\ history = <<>>
    /\ Accumulator = EmptyAcc
    /\ monitoredCatagories = {}

\* hitBar.__init__(imgSize, startPoint, endPoint, name, monitor, width,
\* maxLength, visualize)
Construct(size, sp, ep, monitor, w, maxLen, vis) ==
    LET A == InitStart(size, sp, ep)
        B == InitEnd(size, sp, ep)
    IN  /\ visualize = vis
        /\ imgSize = size
        /\ imgOut = None
        /\ printed = <<>>
        /\ IF InitRaises(size, sp, ep)
           THEN /\ raised = "TypeError"
                /\ Unbuilt
           ELSE /\ raised = "none"
                /\ startPoint = A
                /\ endPoint = B
                /\ maxLength = maxLen
                /\ width = w
                /\ direction = InitDirection(A, B)
                /\ realmIn = InitRealm(A, B, w, -1)
                /\ realmOut = InitRealm(A, B, w, 1)
                /\ history = <<>>
                /\ Accumulator = (IF monitor # None
                                  THEN MonitorAcc(EmptyAcc, monitor)
                                  ELSE EmptyAcc)
                /\ monitoredCatagories = (IF monitor # None
                                          THEN MonitorCats({}, monitor)
                                          ELSE {})

---------------------------------------------------------------------------
(* The gates and the frames of the model *)

Cats == {"ball", "car"}

\* With the bar (0,4)-(4,4) of width 2: strictly inside realmIn (PIn
\* straight above the bar's middle, PSide to its left), on the bar, strictly
\* inside realmOut, and outside both.
PIn   == <<2, 3>>
PSide == <<1, 3>>
PBar  == <<2, 4>>
POut  == <<2, 5>>
PFar  == <<2, 9>>
Points == {PIn, PBar, POut, PFar}

NoProj == [c \in Cats |-> <<>>]
ProjBall(id, tag) == [c \in Cats |-> IF c = "ball" THEN << <<id, tag>> >> ELSE <<>>]

\* The frames update is called with: the empty frame; one "ball" of identity
\* 0 at each point; one "ball" with no identity list, or of identity 1, on
\* either side; one "car" on either side (at PSide, so that its crossing is
\* slanted); one "ball" of identity 0 with a tag in the side mapping (any
\* tag on the bar, tag 0 on either side); two "ball" entries in realmOut
\* with equal or different identities, and two in realmIn with different
\* identities.  Every frame has as many labels as midPoints.
Frames ==
    {Frame(<<>>, <<>>, <<>>, FALSE, NoProj)}
    \cup {Frame(<<"ball">>, <<0>>, <<p>>, FALSE, NoProj) : p \in Points}
    \cup {Frame(<<"ball">>, ids, <<p>>, FALSE, NoProj) :
            p \in {PIn, POut}, ids \in {<<>>, <<1>>}}
    \cup {Frame(<<"car">>, <<0>>, <<p>>, FALSE, NoProj) : p \in {PSide, POut}}
    \cup {Frame(<<"ball">>, <<0>>, <<PBar>>, TRUE, ProjBall(0, t)) : t \in 0..MaxTag}
    \cup {Frame(<<"ball">>, <<0>>, <<p>>, TRUE, ProjBall(0, 0)) : p \in {PIn, POut}}
    \cup {Frame(<<"ball", "ball">>, ids, <<POut, POut>>, FALSE, NoProj) :
            ids \in {<<0, 0>>, <<0, 1>>}}
    \cup {Frame(<<"ball", "ball">>, <<0, 1>>, <<PIn, PIn>>, FALSE, NoProj)}

\* The lists _monitor is called with.
MonitorArgs == {<<"ball">>, <<"car">>, <<"car", "ball">>}

\* The constructor's arguments <<imgSize, startPoint, endPoint>>: with the
\* reference size (height 8, width 4), the default bar and the same
\* horizontal bar given by its endpoints; without a reference size, a bar of
\* length zero, and no endpoints (the constructor raises).  Width 2;
\* maxLength from -1 to 2; with and without "ball" monitored from the start.
Gates ==
    {<< <<8, 4>>, None, None >>,
     << <<8, 4>>, <<0, 4>>, <<4, 4>> >>,
     << None, <<2, 4>>, <<2, 4>> >>,
     << None, None, None >>}
MaxLengths == {-1, 0, 1, 2}
BarWidth == 2

Init ==
    \E g \in Gates, m \in {None, <<"ball">>}, n \in MaxLengths :
        Construct(g[1], g[2], g[3], m, BarWidth, n, TRUE)

Next ==
    \/ \E f \in Frames : Update(f)
    \/ \E cs \in MonitorArgs : Monitor(cs)

Spec == Init /\ [][Next]_vars

---------------------------------------------------------------------------
(* One object moving straight down through the bar (0,300)-(800,300) *)

\* The first frame shows the object at a height from TraverseMinY to the
\* bar; it then moves down by the same step, from 1 to MaxStep, in every
\* frame, until it is below TraverseMaxY.
TraverseMinY == 240
TraverseMaxY == 420
MaxStep == 60

\* The default maxLength of the constructor.
DefaultMaxLength == 50

Ball(y) == Frame(<<"ball">>, <<0>>, << <<400, y>> >>, FALSE, NoProj)

LastY(hist, k) == hist[Len(hist) + 1 - k].midPoints[1][2]

\* The bg of the demo.
DemoBackground == Image(<<600, 800>>, Grey)

TraverseInit ==
    Construct(<<600, 800>>, <<0, 300>>, <<800, 300>>, <<"ball">>, 50,
              DefaultMaxLength, TRUE)

TraverseNext ==
    \E y \in TraverseMinY..TraverseMaxY :
        /\ CASE Len(history) = 0 -> y <= 300
             [] Len(history) = 1 -> y - LastY(history, 1) \in 1..MaxStep
             [] OTHER -> /\ y > LastY(history, 1)
                         /\ y - LastY(history, 1) = LastY(history, 1) - LastY(history, 2)
        /\ update(DemoBackground, Ball(y))

SpecTraverse == TraverseInit /\ [][TraverseNext]_vars

---------------------------------------------------------------------------
(* Gates that keep up to MaxWindow frames, with and without visualization *)

\* The largest maxLength of these gates.
MaxWindow == 3

\* One "ball" of identity 0 at each point, and the empty frame.
WindowFrames ==
    {Frame(<<>>, <<>>, <<>>, FALSE, NoProj)}
    \cup {Frame(<<"ball">>, <<0>>, <<p>>, FALSE, NoProj) : p \in Points}

WindowInit ==
    \E n \in 1..MaxWindow, v \in BOOLEAN :
        Construct(<<8, 4>>, <<0, 4>>, <<4, 4>>, <<"ball">>, BarWidth, n, v)

WindowNext == \E f \in WindowFrames : Update(f)

SpecWindow == WindowInit /\ [][WindowNext]_vars

---------------------------------------------------------------------------
(* Notions the properties are stated with *)

\* The z-component of (b - a) x (p - a).
Cross(a, b, p) == (b[1] - a[1]) * (p[2] - a[2]) - (b[2] - a[2]) * (p[1] - a[1])

\* point is in the interior of the quadrilateral realm: on the same strict
\* side of its four edges.
StrictlyInside(point, realm) ==
    LET s    == Pow2(realm.e)
        p    == <<point[1] * s, point[2] * s>>
        c(i) == Cross(realm.pts[i], realm.pts[(i % 4) + 1], p)
    IN  (\A i \in 1..4 : c(i) > 0) \/ (\A i \in 1..4 : c(i) < 0)

\* point is on the segment from startPoint to endPoint.
OnBar(point) ==
    /\ Cross(startPoint, endPoint, point) = 0
    /\ (point[1] - startPoint[1]) * (point[1] - endPoint[1]) <= 0
    /\ (point[2] - startPoint[2]) * (point[2] - endPoint[2]) <= 0

\* The logical object of entry i of frame f: category, resolved identity
\* and disambiguator.
Key(f, i) ==
    LET id == ResolveID(f.labels, f.IDs, i)
    IN  <<f.labels[i], id, ResolveTag(f, f.labels[i], id)>>

LineKey(line) == <<line.cat, line.ID, line.No>>

\* The number of lines of a printed sequence that satisfy Test.
CountLines(out, Test(_)) == Cardinality({i \in DOMAIN out : Test(out[i])})

Last(hist) == hist[Len(hist)]

\* This step is a call of update on a gate that retains frames (maxLength
\* >= 1), whose argument is then the last frame of the new history.
UpdateStep == maxLength >= 1 /\ Len(history') >= 1 /\ Update(Last(history'))

\* Entry k of frame f is strictly inside rOut, is the only entry of f for
\* its logical object, and that object has an entry strictly inside rIn in
\* the frame past; the gate has a bar of non-zero length, keeps at least two
\* frames and monitors the category.
StrictCrossing(past, f, k, rIn, rOut) ==
    /\ ~ Degenerate(startPoint, endPoint)
    /\ maxLength >= 2
    /\ k \in DOMAIN f.midPoints
    /\ f.labels[k] \in monitoredCatagories
    /\ StrictlyInside(f.midPoints[k], rOut)
    /\ \A k2 \in DOMAIN f.labels : Key(f, k2) = Key(f, k) => k2 = k
    /\ \E j \in DOMAIN past.labels :
          /\ Key(past, j) = Key(f, k)
          /\ StrictlyInside(past.midPoints[j], rIn)

\* Entries per frame in the frames of the model.
EntryIndex == 1..2

---------------------------------------------------------------------------
(* C1 *)

\* C1 as stated: when the frame of step t holds an entry (c, i, g) strictly
\* inside realmIn and the frame of step t+1 holds exactly one entry with the
\* same (c, i, g), strictly inside realmOut, the update of step t+1 raises
\* Accumulator[c] by exactly 1.
C1_RaisedByOne_Original ==
    [][\A k \in EntryIndex :
          (/\ Len(history) >= 1
           /\ UpdateStep
           /\ StrictCrossing(Last(history), Last(history'), k, realmIn', realmOut'))
          => Accumulator'[Last(history').labels[k]]
               = Accumulator[Last(history').labels[k]] + 1]_vars

\* C1, amended: in that case the update of step t+1 confirms that entry
\* exactly once (one line printed for it), and Accumulator[c] rises by the
\* number of entries of category c the update confirms, which is at least 1.
C1_EntryConfirmedOnce ==
    [][\A k \in EntryIndex :
          (/\ Len(history) >= 1
           /\ UpdateStep
           /\ StrictCrossing(Last(history), Last(history'), k, realmIn', realmOut'))
          => LET f == Last(history')
                 c == f.labels[k]
                 SameKey(line) == LineKey(line) = Key(f, k)
                 SameCat(line) == line.cat = c
             IN  /\ CountLines(printed', SameKey) = 1
                 /\ Accumulator'[c] = Accumulator[c] + CountLines(printed', SameCat)]_vars

\* C1, witness: the last two frames show a "ball" strictly inside realmIn
\* and then strictly inside realmOut, and the update printed its line.
C1_Witness ==
    /\ Len(history) >= 2
    /\ StrictCrossing(history[Len(history) - 1], Last(history), 1, realmIn, realmOut)
    /\ Len(printed) = 1
    /\ LineKey(printed[1]) = Key(Last(history), 1)
    /\ Accumulator[printed[1].cat] = printed[1].count

---------------------------------------------------------------------------
(* C2 *)

\* The last two frames of the traversal show the object inside realmIn and
\* then inside realmOut.
JustCrossed ==
    /\ Len(history) >= 2
    /\ inRealm(history[Len(history) - 1].midPoints[1], realmIn)
    /\ inRealm(Last(history).midPoints[1], realmOut)

\* C2 as stated: an object of category "ball" and identity 0 that moves
\* straight down through the bar (0,300)-(800,300) of width 50 is counted
\* once: Accumulator["ball"] is 1 from the update that sees it inside
\* realmOut right after realmIn, and never more than 1, whatever the step
\* and the starting height.
C2_TraversalCountedOnce ==
    /\ Accumulator["ball"] <= 1
    /\ JustCrossed => Accumulator["ball"] = 1

---------------------------------------------------------------------------
(* C3 *)

\* Frame f holds one entry, of a monitored category, on the bar.
RestsOnBar(f) ==
    /\ Len(f.midPoints) = 1
    /\ f.labels[1] \in monitoredCatagories
    /\ OnBar(f.midPoints[1])

\* C3 as stated: an object that rests on the bar, the edge realmIn and
\* realmOut share, is not counted twice: once an update has counted it
\* there, a further update with the same frame leaves its counter as it is.
C3_RestingNotRecounted ==
    [][(/\ Len(history) >= 2
        /\ RestsOnBar(Last(history))
        /\ history[Len(history) - 1] = Last(history)
        /\ Len(printed) = 1
        /\ UpdateStep
        /\ Last(history') = Last(history))
       => Accumulator'[Last(history).labels[1]]
            = Accumulator[Last(history).labels[1]]]_vars

---------------------------------------------------------------------------
(* C4 *)

\* The identity of a logical object, without its disambiguator.
ObjectOf(f, i) == <<f.labels[i], ResolveID(f.labels, f.IDs, i)>>

LineObject(line) == <<line.cat, line.ID>>

\* C4: an object whose entries in the preceding frame all lay inside
\* realmOut and none inside realmIn, boundary included (the realms of that
\* frame's update), is not counted by the next update, wherever it is now;
\* when it is the only object of its category in the new frame, the
\* category's counter stays as it is.
C4_NeverInNeverCounted ==
    [][\A k \in EntryIndex :
          LET f    == Last(history')
              past == Last(history)
          IN  (/\ Len(history) >= 1
               /\ UpdateStep
               /\ k \in DOMAIN f.midPoints
               /\ \A j \in DOMAIN past.labels :
                     ObjectOf(past, j) = ObjectOf(f, k)
                       => /\ inRealm(past.midPoints[j], realmOut)
                          /\ ~ inRealm(past.midPoints[j], realmIn))
              => LET Same(line) == LineObject(line) = ObjectOf(f, k)
                     c == f.labels[k]
                     Alone == \A k2 \in DOMAIN f.labels :
                                 f.labels[k2] = c => ObjectOf(f, k2) = ObjectOf(f, k)
                 IN  /\ CountLines(printed', Same) = 0
                     /\ (c \in monitoredCatagories /\ Alone)
                          => Accumulator'[c] = Accumulator[c]]_vars

\* C4, witness: a monitored "ball" of identity 0 strictly inside realmOut
\* in two consecutive frames, on a gate that keeps two frames and has a bar
\* of non-zero length; nothing was printed.
C4_Witness ==
    /\ Len(history) >= 2
    /\ ~ Degenerate(startPoint, endPoint)
    /\ "ball" \in monitoredCatagories
    /\ \A h \in {history[Len(history) - 1], Last(history)} :
          /\ Len(h.midPoints) = 1
          /\ ObjectOf(h, 1) = <<"ball", 0>>
          /\ StrictlyInside(h.midPoints[1], realmOut)
          /\ ~ inRealm(h.midPoints[1], realmIn)
    /\ printed = <<>>

---------------------------------------------------------------------------
(* C5 *)

\* Both frames supply one identity per label; past holds exactly one entry
\* of category c, and every entry of category c of f (there is one) has
\* another identity.
IdentityChanged(past, f, c) ==
    /\ Len(past.IDs) = Len(past.labels)
    /\ Len(f.IDs) = Len(f.labels)
    /\ Cardinality({j \in DOMAIN past.labels : past.labels[j] = c}) = 1
    /\ \E k \in DOMAIN f.labels : f.labels[k] = c
    /\ \A j \in DOMAIN past.labels, k \in DOMAIN f.labels :
          (past.labels[j] = c /\ f.labels[k] = c) => past.IDs[j] # f.IDs[k]

\* C5: when the only entry of a category in the preceding frame has
\* identity i and the entries of that category in the current frame have
\* other identities, the update counts nothing for the category, wherever
\* the entries are.
C5_IdentityContinuity ==
    \A c \in Cats :
        (Len(history) >= 2 /\ IdentityChanged(history[Len(history) - 1], Last(history), c))
        => \A n \in DOMAIN printed : printed[n].cat # c

\* C5, witness: a monitored "ball" of identity 0 strictly inside realmIn,
\* then a "ball" of identity 1 strictly inside realmOut; nothing printed.
C5_Witness ==
    /\ Len(history) >= 2
    /\ maxLength >= 2
    /\ "ball" \in monitoredCatagories
    /\ IdentityChanged(history[Len(history) - 1], Last(history), "ball")
    /\ StrictlyInside(history[Len(history) - 1].midPoints[1], realmIn)
    /\ Last(history).labels[1] = "ball"
    /\ StrictlyInside(Last(history).midPoints[1], realmOut)
    /\ printed = <<>>

---------------------------------------------------------------------------
(* C6 *)

\* Entry k of f, of a monitored category, is strictly inside rOut, one unit
\* along the bar's normal from a point of the bar where the same category
\* and identity has an entry in the frame past; the gate keeps two frames.
BoundaryCrossing(past, f, k, rOut) ==
    /\ maxLength >= 2
    /\ k \in DOMAIN f.midPoints
    /\ f.labels[k] \in monitoredCatagories
    /\ StrictlyInside(f.midPoints[k], rOut)
    /\ \E j \in DOMAIN past.labels :
          /\ ObjectOf(past, j) = ObjectOf(f, k)
          /\ OnBar(past.midPoints[j])
          /\ f.midPoints[k][1] = past.midPoints[j][1] + InitDirection(startPoint, endPoint).x
          /\ f.midPoints[k][2] = past.midPoints[j][2] + InitDirection(startPoint, endPoint).y

\* The update confirmed entry k of f: it printed a line for its object, and
\* every line it printed for the category raised the counter by 1.
Confirmed(f, k) ==
    LET c == f.labels[k]
        SameObject(line) == LineObject(line) = ObjectOf(f, k)
        SameCat(line)    == line.cat = c
    IN  /\ CountLines(printed', SameObject) >= 1
        /\ Accumulator'[c] = Accumulator[c] + CountLines(printed', SameCat)

\* The tag of entry k of f does not contradict the frame past: the entry
\* has no tag, or past has no side mapping, or past records the same tag for
\* the identity.
TagAgrees(past, f, k) ==
    LET c  == f.labels[k]
        id == ResolveID(f.labels, f.IDs, k)
        g  == ResolveTag(f, c, id)
    IN  g = NoTag \/ ~ past.hasProj \/ ResolveTag(past, c, id) = g

\* C6 as stated: a monitored object on the bar at frame t and one unit
\* inside realmOut at frame t+1, with the same category and identity, is
\* confirmed by the update of frame t+1, which increments the counter by 1.
C6_BoundaryCrossing_Original ==
    [][\A k \in EntryIndex :
          (/\ Len(history) >= 1
           /\ UpdateStep
           /\ BoundaryCrossing(Last(history), Last(history'), k, realmOut'))
          => Confirmed(Last(history'), k)]_vars

\* C6, amended: the same, when the disambiguator tag of the entry does not
\* contradict the preceding frame.
C6_BoundaryCrossing ==
    [][\A k \in EntryIndex :
          (/\ Len(history) >= 1
           /\ UpdateStep
           /\ BoundaryCrossing(Last(history), Last(history'), k, realmOut')
           /\ TagAgrees(Last(history), Last(history'), k))
          => Confirmed(Last(history'), k)]_vars

\* C6, witness: a "ball" on the bar and then one unit inside realmOut; the
\* update printed its line.
C6_Witness ==
    /\ Len(history) >= 2
    /\ BoundaryCrossing(history[Len(history) - 1], Last(history), 1, realmOut)
    /\ TagAgrees(history[Len(history) - 1], Last(history), 1)
    /\ Len(printed) = 1
    /\ LineObject(printed[1]) = ObjectOf(Last(history), 1)
    /\ Accumulator[printed[1].cat] = printed[1].count

---------------------------------------------------------------------------
(* C7 *)

\* This step is a call of update.
AnyUpdateStep == UpdateStep \/ (maxLength < 1 /\ \E f \in Frames : Update(f))

\* C7 as stated: after every update, for every maxLength (0, 1 and negative
\* values included), len(history) <= maxLength.
C7_HistoryBounded_Original ==
    [][AnyUpdateStep => Len(history') <= maxLength]_vars

\* C7, amended: len(history) <= max(maxLength, 0) in every state; a gate
\* with a negative maxLength keeps an empty history.
C7_HistoryBounded ==
    Len(history) <= (IF maxLength < 0 THEN 0 ELSE maxLength)

\* C7, witness: a gate of maxLength 2 holds two frames after at least three
\* updates (two of them counted a crossing of a frame of one entry, so a
\* frame was evicted).
C7_Witness ==
    /\ maxLength = 2
    /\ Len(history) = 2
    /\ \A n \in DOMAIN history : Len(history[n].midPoints) = 1
    /\ Len(printed) = 1
    /\ printed[1].count = 2

---------------------------------------------------------------------------
(* C8 *)

ListSet(categories) == {categories[i] : i \in DOMAIN categories}

\* C8: _monitor leaves every counter it finds as it is, adds a counter of 0
\* for each name that had none and for no other, adds the names to the
\* monitored set, and a second call with the same list changes nothing.
C8_MonitorIdempotent ==
    [][\A cs \in MonitorArgs :
          Monitor(cs) =>
            /\ \A c \in DOMAIN Accumulator :
                  c \in DOMAIN Accumulator' /\ Accumulator'[c] = Accumulator[c]
            /\ DOMAIN Accumulator' = (DOMAIN Accumulator) \cup ListSet(cs)
            /\ \A c \in (DOMAIN Accumulator') \ (DOMAIN Accumulator) : Accumulator'[c] = 0
            /\ monitoredCatagories' = monitoredCatagories \cup ListSet(cs)
            /\ MonitorAcc(Accumulator', cs) = Accumulator'
            /\ MonitorCats(monitoredCatagories', cs) = monitoredCatagories']_vars

\* C8, witness: "ball" has been counted, and "car" is monitored with a
\* counter of 0 beside it.
C8_Witness ==
    /\ monitoredCatagories = {"ball", "car"}
    /\ Accumulator["ball"] >= 1
    /\ Accumulator["car"] = 0

---------------------------------------------------------------------------
(* C9 *)

\* The lines printed by an update account for the counters: line n is the
\* m-th line of its category and shows the old count plus m, and the new
\* count of a category is the old one plus the number of its lines.
LinesAccount(old, new, out) ==
    /\ DOMAIN new = DOMAIN old
    /\ \A n \in DOMAIN out :
          LET Earlier == {m \in 1..n : out[m].cat = out[n].cat}
          IN  /\ out[n].cat \in DOMAIN old
              /\ out[n].count = old[out[n].cat] + Cardinality(Earlier)
    /\ \A c \in DOMAIN old :
          new[c] = old[c] + Cardinality({n \in DOMAIN out : out[n].cat = c})

\* C9: every counter is a natural number and never decreases; an update
\* raises a counter by 1 for each crossing it confirms, each confirmed
\* crossing being one entry of the frame inside realmOut, and one category's
\* counter; no other step changes a counter.
C9_CountersMonotone ==
    /\ [](\A c \in DOMAIN Accumulator : Accumulator[c] \in Nat)
    /\ [][/\ \A c \in DOMAIN Accumulator :
                c \in DOMAIN Accumulator' /\ Accumulator'[c] >= Accumulator[c]
          /\ AnyUpdateStep => LinesAccount(Accumulator, Accumulator', printed')
          /\ UpdateStep =>
                \A c \in Cats :
                   Cardinality({n \in DOMAIN printed' : printed'[n].cat = c})
                     <= Cardinality({k \in DOMAIN Last(history').midPoints :
                                       /\ Last(history').labels[k] = c
                                       /\ inRealm(Last(history').midPoints[k], realmOut')})
          /\ ~ AnyUpdateStep =>
                \A c \in DOMAIN Accumulator : Accumulator'[c] = Accumulator[c]]_vars

\* C9, witness: one update confirmed two entries and raised the counter of
\* "ball" from 0 to 2.
C9_Witness ==
    /\ Len(printed) = 2
    /\ printed[1].count = 1
    /\ printed[2].count = 2
    /\ Accumulator["ball"] = 2

---------------------------------------------------------------------------
(* C10 *)

\* C10: the keys of Accumulator are the monitored categories.
C10_KeysAreMonitored == DOMAIN Accumulator = monitoredCatagories

\* C10, witness: both categories are monitored, and an update has raised
\* each one's counter.
C10_Witness ==
    /\ monitoredCatagories = {"ball", "car"}
    /\ Accumulator["ball"] >= 1
    /\ Accumulator["car"] >= 1

---------------------------------------------------------------------------
(* C11 *)

\* C11 as stated: a gate constructed with startPoint = endPoint is built
\* without error, and no update on it ever confirms a crossing, whatever the
\* frames and the positions (the single point included): every counter
\* stays at 0 and no line is printed.
C11_DegenerateNeverCounts ==
    (startPoint # None /\ startPoint = endPoint)
    => /\ raised = "none"
       /\ printed = <<>>
       /\ \A c \in DOMAIN Accumulator : Accumulator[c] = 0

---------------------------------------------------------------------------
(* C12 *)

\* C12 as stated: an entry that has a disambiguator tag g is confirmed only
\* if the side mapping of the preceding frame records the same tag g for
\* its identity; when the preceding frame has no tag for it (the category
\* or the identity is missing from its side mapping, or it has no side
\* mapping at all) the match is rejected and nothing is counted.
C12_TagMatching ==
    \A n \in DOMAIN printed :
        printed[n].No # NoTag
        => /\ Len(history) >= 2
           /\ history[Len(history) - 1].hasProj
           /\ ResolveTag(history[Len(history) - 1], printed[n].cat, printed[n].ID)
                = printed[n].No

---------------------------------------------------------------------------
(* C13 *)

\* The picture an image was drawn on.
Input(image) == Image(image.size, image.base)

\* Pixel p is part of the annotation of an image: in a filled region or on
\* the centerline.
Annotated(image, p) ==
    \/ image.fills # <<>> /\ (Filled(image.fills[1], p) \/ Filled(image.fills[2], p))
    \/ image.line # <<>> /\ OnSegment(image.line[1], image.line[2], p)

\* C13 as stated: when visualize is False the image update returns has the
\* content of the picture it was given, pixel for pixel (no region fill, no
\* centerline); when visualize is True it differs from the picture only in
\* the annotation.
C13_UnmodifiedWhenNotVisualized ==
    imgOut # None
    => \A p \in Pixels(imgOut.size) :
          (~ visualize \/ ~ Annotated(imgOut, p))
          => Pixel(imgOut, p) = Pixel(Input(imgOut), p)

---------------------------------------------------------------------------
(* C14 *)

\* The state of a gate that was built is well defined: the history is a
\* list of frames within its bound, and every monitored category has a
\* natural number for a counter.
WellDefined ==
    /\ \A n \in DOMAIN history : history[n] \in Frames
    /\ Len(history) <= (IF maxLength < 0 THEN 0 ELSE maxLength)
    /\ DOMAIN Accumulator = monitoredCatagories
    /\ \A c \in DOMAIN Accumulator : Accumulator[c] \in Nat

\* The lines of the most recent update follow the fallback policies: the
\* identity of a line is that of an entry of the frame, its positional
\* index when the identity list does not match the labels; its tag is the
\* one the side mapping gives, none when the mapping lacks the category or
\* the identity; nothing is confirmed without a preceding frame, nor on a
\* bar of length zero.
Fallbacks ==
    /\ \A n \in DOMAIN printed :
          LET f == Last(history)
          IN  /\ \E k \in DOMAIN f.labels :
                    /\ f.labels[k] = printed[n].cat
                    /\ printed[n].ID = (IF Len(f.IDs) = Len(f.labels)
                                        THEN f.IDs[k] ELSE k - 1)
              /\ printed[n].No =
                    (IF /\ f.hasProj
                        /\ \E i \in DOMAIN f.numProjection[printed[n].cat] :
                              f.numProjection[printed[n].cat][i][1] = printed[n].ID
                     THEN ResolveTag(f, printed[n].cat, printed[n].ID)
                     ELSE NoTag)
    /\ Len(history) < 2 => printed = <<>>
    /\ Degenerate(startPoint, endPoint) => printed = <<>>

\* C14 as stated: the only failure is the one of the constructor when it is
\* given no endpoints and no reference size; on a gate that was built,
\* update never raises on a frame whose identity list does not match its
\* labels, whose side mapping lacks the category or the identity, that has
\* no preceding frame, or on a bar of length zero: it follows the fallback
\* of each case and leaves the history and the counters well defined.
C14_OnlyConstructionFails ==
    /\ raised # "none"
         => (raised = "TypeError" /\ imgSize = None /\ startPoint = None
                                 /\ endPoint = None)
    /\ Built => (WellDefined /\ Fallbacks)

---------------------------------------------------------------------------
(* C15 *)

\* The corners of a realm, brought to the scale 2^e.
Corners(realm, e) ==
    {<<realm.pts[i][1] * Pow2(e - realm.e), realm.pts[i][2] * Pow2(e - realm.e)>> :
        i \in DOMAIN realm.pts}

\* Two realms are the same quadrilateral: they have the same corners.
SameQuad(r1, r2) ==
    LET e == IF r1.e > r2.e THEN r1.e ELSE r2.e
    IN  Corners(r1, e) = Corners(r2, e)

\* C15 as stated: in every state between calls, after construction and
\* after each update, realmIn and realmOut are the quadrilaterals derived
\* from the current startPoint, endPoint, direction and width, also after
\* an update that confirmed a crossing and changed direction.
C15_RealmsDerived ==
    Built
    => /\ SameQuad(realmIn, RealmOf(startPoint, endPoint, width, direction, -1))
       /\ SameQuad(realmOut, RealmOf(startPoint, endPoint, width, direction, 1))

---------------------------------------------------------------------------
(* C16 *)

\* Frame h holds an entry of the object (category, identity) inside realm.
Holds(h, object, realm) ==
    \E j \in DOMAIN h.labels :
        ObjectOf(h, j) = object /\ inRealm(h.midPoints[j], realm)

\* C16: only the immediately preceding retained frame is consulted.  Every
\* crossing the most recent update confirmed is that of an entry of its
\* frame inside realmOut whose object has an entry inside realmIn in
\* history[-2], which exists: the first update of a gate confirms nothing;
\* and an object inside realmIn at frame t, absent or outside realmIn at
\* frame t+1 and inside realmOut at frame t+2 is not counted at t+2, though
\* frame t is still retained.
C16_OnlyPrecedingFrame ==
    /\ \A n \in DOMAIN printed :
          /\ Len(history) >= 2
          /\ Holds(Last(history), LineObject(printed[n]), realmOut)
          /\ Holds(history[Len(history) - 1], LineObject(printed[n]), realmIn)
    /\ Len(history) <= 1 => printed = <<>>
    /\ \A k \in EntryIndex :
          (/\ Len(history) >= 3
           /\ k \in DOMAIN Last(history).labels
           /\ Holds(history[Len(history) - 2], ObjectOf(Last(history), k), realmIn)
           /\ ~ Holds(history[Len(history) - 1], ObjectOf(Last(history), k), realmIn)
           /\ inRealm(Last(history).midPoints[k], realmOut))
          => \A n \in DOMAIN printed :
                LineObject(printed[n]) # ObjectOf(Last(history), k)

\* C16, witness: a gate that retains three frames saw a monitored "ball"
\* strictly inside realmIn, then a frame without it inside realmIn, then
\* the ball strictly inside realmOut, and confirmed nothing.
C16_Witness ==
    /\ Len(history) = 3
    /\ "ball" \in monitoredCatagories
    /\ Len(history[1].midPoints) = 1
    /\ ObjectOf(history[1], 1) = <<"ball", 0>>
    /\ StrictlyInside(history[1].midPoints[1], realmIn)
    /\ ~ Holds(history[2], <<"ball", 0>>, realmIn)
    /\ Len(history[3].midPoints) = 1
    /\ ObjectOf(history[3], 1) = <<"ball", 0>>
    /\ StrictlyInside(history[3].midPoints[1], realmOut)
    /\ printed = <<>>

---------------------------------------------------------------------------
(* C17 *)

\* The entries of frame f that have the category and identity of entry k.
Duplicates(f, k) == {k2 \in DOMAIN f.labels : ObjectOf(f, k2) = ObjectOf(f, k)}

\* The entries of f with the category and identity of entry k, a monitored
\* category, are all inside rOut, and the frame past, which the gate
\* retains, holds an entry inside rIn that matches them: same category and
\* identity, and a tag that does not contradict theirs.
DuplicateCrossing(past, f, k, rIn, rOut) ==
    /\ maxLength >= 2
    /\ k \in DOMAIN f.midPoints
    /\ f.labels[k] \in monitoredCatagories
    /\ \A k2 \in Duplicates(f, k) : inRealm(f.midPoints[k2], rOut)
    /\ TagAgrees(past, f, k)
    /\ Holds(past, ObjectOf(f, k), rIn)

\* C17 as stated: when the frame holds k entries of one monitored category
\* and identity, each inside realmOut, and the preceding frame holds a
\* matching entry inside realmIn, the update raises the counter of the
\* category by k.
C17_RaisedByK_Original ==
    [][\A k \in EntryIndex :
          (/\ Len(history) >= 1
           /\ UpdateStep
           /\ DuplicateCrossing(Last(history), Last(history'), k, realmIn', realmOut'))
          => Accumulator'[Last(history').labels[k]]
               = Accumulator[Last(history').labels[k]]
                   + Cardinality(Duplicates(Last(history'), k))]_vars

\* C17, amended: in that case the update confirms each of the k entries (it
\* prints k lines for the category and identity, with counts that rise by
\* one from line to line), and raises the counter of the category by the
\* number of entries of the category it confirms, which is k when it
\* confirms no entry of another identity.
C17_DuplicatesEachConfirmed ==
    [][\A k \in EntryIndex :
          (/\ Len(history) >= 1
           /\ UpdateStep
           /\ DuplicateCrossing(Last(history), Last(history'), k, realmIn', realmOut'))
          => LET f == Last(history')
                 c == f.labels[k]
                 SameObject(line) == LineObject(line) = ObjectOf(f, k)
                 SameCat(line)    == line.cat = c
             IN  /\ CountLines(printed', SameObject) = Cardinality(Duplicates(f, k))
                 /\ Accumulator'[c] = Accumulator[c] + CountLines(printed', SameCat)
                 /\ Accumulator'[c] >= Accumulator[c] + Cardinality(Duplicates(f, k))
                 /\ \A n \in DOMAIN printed' :
                       printed'[n].cat = c
                       => printed'[n].count
                            = Accumulator[c]
                                + Cardinality({m \in 1..n : printed'[m].cat = c})]_vars

\* C17, witness: the preceding frame holds a "ball" of identity 0 inside
\* realmIn, the current frame two entries of that category and identity
\* inside realmOut, and the update printed a line for each: the counter
\* rose by 2.
C17_Witness ==
    /\ Len(history) >= 2
    /\ Len(Last(history).midPoints) = 2
    /\ Cardinality(Duplicates(Last(history), 1)) = 2
    /\ DuplicateCrossing(history[Len(history) - 1], Last(history), 1, realmIn, realmOut)
    /\ Len(printed) = 2
    /\ \A n \in 1..2 : LineObject(printed[n]) = ObjectOf(Last(history), 1)
    /\ printed[2].count = printed[1].count + 1
    /\ Accumulator[printed[2].cat] = printed[2].count

---------------------------------------------------------------------------
(* C18 *)

\* The identity of the entry at index k (from 0: entry k + 1 of the list)
\* of frame f, resolved in that frame alone.
Identity(f, k) == IF Len(f.IDs) = Len(f.labels) THEN f.IDs[k + 1] ELSE k

\* Frame h holds, at an index whose identity resolves to id, an entry of
\* category c inside realm.
HoldsIdentity(h, c, id, realm) ==
    \E j \in DOMAIN h.labels :
        /\ h.labels[j] = c
        /\ Identity(h, j - 1) = id
        /\ inRealm(h.midPoints[j], realm)

\* C18: the identity of the entry at index k is IDs[k] when the frame has
\* as many identities as labels, and k otherwise, in each frame on its own.
\* An update confirms a crossing for an entry exactly when its category is
\* monitored, an entry of its category and identity is inside realmOut, and
\* the preceding frame holds an entry of that category whose identity,
\* resolved in the preceding frame, is the same, inside realmIn (with a tag
\* that does not contradict it): an explicit identity of one frame is
\* compared with a positional index of the other when only one of the two
\* frames supplies identities.
C18_IdentityResolution ==
    [][(Len(history) >= 1 /\ UpdateStep /\ maxLength >= 2)
       => LET f    == Last(history')
              past == Last(history)
          IN  /\ \A n \in DOMAIN printed' :
                     \E k \in DOMAIN f.labels :
                        /\ f.labels[k] = printed'[n].cat
                        /\ Identity(f, k - 1) = printed'[n].ID
              /\ \A k \in DOMAIN f.labels :
                     (\E n \in DOMAIN printed' :
                         /\ printed'[n].cat = f.labels[k]
                         /\ printed'[n].ID = Identity(f, k - 1))
                     <=> /\ f.labels[k] \in monitoredCatagories
                         /\ HoldsIdentity(f, f.labels[k], Identity(f, k - 1), realmOut')
                         /\ TagAgrees(past, f, k)
                         /\ HoldsIdentity(past, f.labels[k], Identity(f, k - 1),
                                          realmIn')]_vars

\* C18, witness: the preceding frame has no identity list and holds a
\* "ball" at index 0 inside realmIn; the current frame gives the "ball"
\* inside realmOut the explicit identity 0; the update confirmed it.
C18_Witness ==
    /\ Len(history) >= 2
    /\ ~ Degenerate(startPoint, endPoint)
    /\ history[Len(history) - 1].labels = <<"ball">>
    /\ history[Len(history) - 1].IDs = <<>>
    /\ StrictlyInside(history[Len(history) - 1].midPoints[1], realmIn)
    /\ Last(history).labels = <<"ball">>
    /\ Last(history).IDs = <<0>>
    /\ StrictlyInside(Last(history).midPoints[1], realmOut)
    /\ Len(printed) = 1
    /\ printed[1].ID = 0

---------------------------------------------------------------------------
(* C19 *)

\* The last m elements of a sequence, or all of it when it has fewer.
LastOf(seq, m) ==
    IF Len(seq) <= m THEN seq ELSE SubSeq(seq, Len(seq) - m + 1, Len(seq))

\* C19: on a gate with maxLength = m >= 1, history is empty at
\* construction and every call update(f) turns it into the last m frames
\* of history followed by f, or all of them when they are fewer.  So after
\* n calls history is the last min(n, m) frames passed, in arrival order:
\* history[-1] is the frame of this call and history[-2] the frame of the
\* call before.
C19_HistoryIsWindow ==
    /\ [](maxLength >= 1 => Len(history) <= maxLength)
    /\ [][\A f \in WindowFrames :
             (maxLength >= 1 /\ Update(f))
             => /\ history' = LastOf(Append(history, f), maxLength)
                /\ Last(history') = f
                /\ (maxLength >= 2 /\ Len(history) >= 1)
                     => history'[Len(history') - 1] = Last(history)]_vars

\* C19, witness: a gate of maxLength 3 holds three frames, the "ball"
\* outside both realms, then inside realmIn, then inside realmOut, and the
\* last update counted the second crossing: the frames of the first
\* crossing were evicted.
C19_Witness ==
    /\ maxLength = 3
    /\ Len(history) = 3
    /\ \A n \in 1..3 : Len(history[n].midPoints) = 1
    /\ history[1].midPoints[1] = PFar
    /\ history[2].midPoints[1] = PIn
    /\ history[3].midPoints[1] = POut
    /\ Len(printed) = 1
    /\ printed[1].count = 2

---------------------------------------------------------------------------
(* C20 *)

\* The entries of the frame past that entry k of f can be matched with:
\* same category, same identity, each resolved in its own frame, inside rIn.
Earlier(past, f, k, rIn) ==
    {j \in DOMAIN past.labels :
        /\ past.labels[j] = f.labels[k]
        /\ Identity(past, j - 1) = Identity(f, k - 1)
        /\ inRealm(past.midPoints[j], rIn)}

\* The update confirms entry k of f.
Crosses(past, f, k, rIn, rOut) ==
    /\ f.labels[k] \in monitoredCatagories
    /\ inRealm(f.midPoints[k], rOut)
    /\ TagAgrees(past, f, k)
    /\ Earlier(past, f, k, rIn) # {}

\* The pair <<x, y>> / 2^e after the first n entries of f: for each entry
\* that crosses, in input order, half the sum of the pair and of the
\* displacement from the first matching earlier position to the entry's.
RECURSIVE Averaged(_, _, _, _, _, _)
Averaged(d, past, f, rIn, rOut, n) ==
    IF n = 0 THEN d
    ELSE LET b  == Averaged(d, past, f, rIn, rOut, n - 1)
             j  == Least(Earlier(past, f, n, rIn))
             dx == f.midPoints[n][1] - past.midPoints[j][1]
             dy == f.midPoints[n][2] - past.midPoints[j][2]
         IN  IF Crosses(past, f, n, rIn, rOut)
             THEN [x |-> b.x + dx * Pow2(b.e), y |-> b.y + dy * Pow2(b.e),
                   e |-> b.e + 1]
             ELSE b

\* Two pairs <<x, y>> / 2^e have the same value.
SameVector(a, b) ==
    /\ a.x * Pow2(b.e) = b.x * Pow2(a.e)
    /\ a.y * Pow2(b.e) = b.y * Pow2(a.e)

\* C20: an update computes both realms from direction as it is when the
\* call starts and tests every entry of the frame against them; for each
\* entry it confirms, in input order, direction becomes, component by
\* component, 0.5 * (direction + (position - earlier position)), once per
\* confirmed entry and without being scaled back to length 1; an update
\* that has no preceding frame leaves direction as it is.
C20_DirectionAveraged ==
    [][UpdateStep
       => LET f    == Last(history')
              past == Last(history)
          IN  /\ realmIn'  = RealmOf(startPoint, endPoint, width, direction, -1)
              /\ realmOut' = RealmOf(startPoint, endPoint, width, direction, 1)
              /\ IF Len(history) >= 1 /\ maxLength >= 2
                 THEN /\ SameVector(direction',
                                    Averaged(direction, past, f, realmIn', realmOut',
                                             Len(f.midPoints)))
                      /\ Len(printed')
                           = Cardinality({k \in DOMAIN f.midPoints :
                                            Crosses(past, f, k, realmIn', realmOut')})
                 ELSE direction' = direction /\ printed' = <<>>]_vars

\* C20, witness: one update confirmed two entries that each moved by
\* (0, 2) across the bar: direction went from (0, 1) to (0, 1.5) and then to
\* (0, 1.75), while the realms are still those of direction (0, 1).
C20_Witness ==
    /\ Len(printed) = 2
    /\ direction = [x |-> 0, y |-> 7, e |-> 2]
    /\ realmOut = RealmOf(startPoint, endPoint, width, [x |-> 0, y |-> 1, e |-> 0], 1)
    /\ realmIn = RealmOf(startPoint, endPoint, width, [x |-> 0, y |-> 1, e |-> 0], -1)
    /\ ~ Degenerate(startPoint, endPoint)

---------------------------------------------------------------------------
(* C21 *)

\* Entry k of frame f has a monitored category and is inside realmOut.
Arrived(f, k) ==
    /\ k \in DOMAIN f.labels
    /\ f.labels[k] \in monitoredCatagories
    /\ inRealm(f.midPoints[k], realmOut)

\* C21: a gate configured with maxLength <= 1 never confirms a crossing:
\* in every state, after any sequence of frames and _monitor calls, history
\* holds at most one frame (so history[-2] does not exist), no line was
\* printed by the last update, every counter is 0 and direction is the one
\* the constructor set.
C21_ShortHistoryNeverConfirms ==
    (Built /\ maxLength <= 1)
        => /\ Len(history) <= 1
           /\ PastFrame(history) = <<>>
           /\ printed = <<>>
           /\ \A c \in DOMAIN Accumulator : Accumulator[c] = 0
           /\ direction = InitDirection(startPoint, endPoint)

\* C21, witness: a gate of maxLength 1 with a bar of non-zero length was
\* updated with a frame that holds a monitored entry inside realmOut (the
\* entry for which _hasIn is called), and that frame is the one frame of
\* history.
C21_Witness ==
    /\ Built
    /\ maxLength = 1
    /\ ~ Degenerate(startPoint, endPoint)
    /\ imgOut # None
    /\ Len(history) = 1
    /\ Arrived(history[1], 1)
    /\ history[1].midPoints[1] = POut
    /\ \A c \in DOMAIN Accumulator : Accumulator[c] = 0

---------------------------------------------------------------------------
(* C22 *)

\* No entry of frame f has a monitored category.
NoneMonitored(f) == \A k \in DOMAIN f.labels : f.labels[k] \notin monitoredCatagories

\* C22: no update call changes startPoint, endPoint, width, maxLength or
\* the set of monitored categories (nor imgSize or visualize); an update
\* call that confirms no crossing (it prints no line), as is every call
\* whose frame has no entry of a monitored category, leaves Accumulator and
\* direction as they were: it changes nothing but history, realmIn,
\* realmOut and imgOut.
C22_UpdateFrameCondition ==
    [][AnyUpdateStep
       => /\ UNCHANGED <<startPoint, endPoint, width, maxLength,
                         monitoredCatagories, imgSize, visualize>>
          /\ printed' = <<>> => UNCHANGED <<Accumulator, direction>>
          /\ (Len(history') >= 1 /\ NoneMonitored(Last(history')))
                => printed' = <<>>]_vars

\* C22, witness: after an update confirmed a crossing (the counter of
\* "ball" is 1 and direction is (0, 1.5), no longer the constructor's), the
\* gate was updated with a frame whose one entry, a "car" inside realmOut,
\* is not monitored: that update printed nothing, recomputed the realms from
\* direction (0, 1.5), appended the frame and drew the image, and the
\* counter and direction are what the confirming update left.
C22_Witness ==
    /\ monitoredCatagories = {"ball"}
    /\ Accumulator["ball"] = 1
    /\ direction = [x |-> 0, y |-> 3, e |-> 1]
    /\ printed = <<>>
    /\ raised = "none"
    /\ Len(history) = 2
    /\ history[2].labels = <<"car">>
    /\ inRealm(history[2].midPoints[1], realmOut)
    /\ realmOut = RealmOf(startPoint, endPoint, width, direction, 1)
    /\ realmIn = RealmOf(startPoint, endPoint, width, direction, -1)
    /\ imgOut = Render(Background, realmIn, realmOut, startPoint, endPoint, visualize)

=============================================================================
